---- MODULE Spec2Model ----
(***************************************************************************)
(* A model of SATCHUIM/core/Solver.cc: the guiding-path encoder, the       *)
(* weighted two-watched-literal propagator, the chronological search       *)
(* driver and the solve_ entry point, run by one worker and by NbThreads   *)
(* workers on the same transaction database.                               *)
(*                                                                         *)
(* Indices follow the C++ source: a trail position, qhead and the entries  *)
(* of trail_lim are 0-based, so position k of the trail is trail[k+1].     *)
(* A clause handle (CRef) is the position of the clause in the arena ca.   *)
(***************************************************************************)
EXTENDS Integers, Sequences, FiniteSets, TLC

\* ------------------------------------------------------------------ bounds
NbItems == 3
MaxTrans == 3
MaxWeight == 2
MaxSupp == 4
NbThreads == 2
MaxLubyX == 130

\* ------------------------------------------------------------- literals
\* Lit is 2*var + sign, sign 1 for the negative literal (mtl/SolverTypes.h).
mkLit(v, sgn) == 2 * v + sgn
var(p) == p \div 2
sign(p) == p % 2
Neg(p) == IF p % 2 = 0 THEN p + 1 ELSE p - 1
lit_Undef == -2
CRef_Undef == -1
l_True == "T"
l_False == "F"
l_Undef == "U"

\* ------------------------------------------------------------- helpers
RECURSIVE SumSeq(_)
SumSeq(q) == IF q = <<>> THEN 0 ELSE Head(q) + SumSeq(Tail(q))

RECURSIVE SumFn(_, _)
SumFn(f, S) == IF S = {} THEN 0
               ELSE LET x == CHOOSE y \in S : TRUE IN f[x] + SumFn(f, S \ {x})

RECURSIVE SetToSeq(_)
SetToSeq(S) == IF S = {} THEN <<>>
               ELSE LET m == CHOOSE x \in S : \A y \in S : x <= y
                    IN <<m>> \o SetToSeq(S \ {m})

Range(q) == {q[i] : i \in 1..Len(q)}

\* sort(ps) of mtl/Sort.h on literals: ascending in the literal's integer.
RECURSIVE InsertSorted(_, _)
InsertSorted(x, q) == IF q = <<>> THEN <<x>>
                      ELSE IF x <= Head(q) THEN <<x>> \o q
                      ELSE <<Head(q)>> \o InsertSorted(x, Tail(q))
RECURSIVE sort(_)
sort(q) == IF q = <<>> THEN <<>> ELSE InsertSorted(Head(q), sort(Tail(q)))

\* ------------------------------------------------- the input database
Items == 0..(NbItems - 1)
ItemSets == (SUBSET Items) \ {{}}
TransKey(I) == SumFn([i \in Items |-> IF i \in I THEN 2^i ELSE 0], Items)
\* The item sets of a database: at most MaxTrans transactions, listed by
\* non-decreasing item set.
Shapes == UNION {{d \in [1..n -> ItemSets] :
                    \A k \in 1..(n - 1) : TransKey(d[k]) <= TransKey(d[k + 1])}
                 : n \in 0..MaxTrans}
\* The weights: every item weighs 1 in every transaction, except one heavy
\* item (if any) that weighs MaxWeight.
DataBase(shape, heavy) ==
  [k \in 1..Len(shape) |->
     [items |-> shape[k],
      w |-> [i \in shape[k] |-> IF i = heavy THEN MaxWeight ELSE 1]]]
DataBases == {DataBase(shape, heavy) : shape \in Shapes, heavy \in Items \cup {NbItems}}

VARIABLES db, min_supp, enum_clos, sv, lb

vars == <<db, min_supp, enum_clos, sv, lb>>

nbItems == NbItems
nbTrans == Len(db)
\* The loader's tables (Cooperation): transaction num is db[num + 1].
list_transactions(num) == [k \in 1..Cardinality(db[num + 1].items) |->
                              mkLit(SetToSeq(db[num + 1].items)[k], 0)]
wItemTrans(num) == [k \in 1..Cardinality(db[num + 1].items) |->
                       db[num + 1].w[SetToSeq(db[num + 1].items)[k]]]
appearTrans(v) == SetToSeq({num \in 0..(nbTrans - 1) : v \in db[num + 1].items})
wocc(v) == SumFn([num \in 0..(nbTrans - 1) |->
                    IF v \in db[num + 1].items THEN SumSeq(wItemTrans(num)) ELSE 0],
                 0..(nbTrans - 1))
allItems == [k \in 1..nbItems |-> mkLit(k - 1, 0)]
div_begining == 0

\* ------------------------------------------------------ solver state
\* Every variable a worker can ever allocate: items, transactions, reifiers.
NbReifiers == SumFn([k \in 1..nbTrans |-> Cardinality(db[k].items)], 1..nbTrans)
VarIds == 0..(nbItems + nbTrans + NbReifiers - 1)
LitIds == 0..(2 * (nbItems + nbTrans + NbReifiers) - 1)

value(s, p) == IF s.assigns[var(p)] = l_Undef THEN l_Undef
               ELSE IF (s.assigns[var(p)] = l_True) = (sign(p) = 0) THEN l_True
               ELSE l_False
decisionLevel(s) == Len(s.trail_lim)
nVars(s) == s.nVars

\* The options "rfirst" and "rinc" at their defaults.
opt_restart_first == 100
opt_restart_inc == 2

\* The solver as the constructor, the loader's newVar calls and EncodeDB
\* leave it.  totalWeight has no initializer: tw0 is whatever it holds.
\* nof_conflicts and conflictC are the argument and the local counter of
\* the running call of search; plog lists what the latest call of propagate
\* did; extraUnits is the inbox of imported units; handed counts the
\* literals of the present trail that exportClause gave to the hub.
NewSolver(tid, nth, tw0) ==
  [threadId |-> tid, nbThreads |-> nth, pc |-> "solve", status |-> l_Undef,
   ok |-> TRUE, asynch_interrupt |-> FALSE,
   assigns |-> [v \in VarIds |-> l_Undef],
   vardata |-> [v \in VarIds |-> [reason |-> CRef_Undef, level |-> 0]],
   trail |-> <<>>, trail_lim |-> <<>>, qhead |-> 0,
   ca |-> <<>>, clauses |-> <<>>,
   watches |-> [p \in LitIds |-> <<>>], dirty |-> {},
   totalWeight |-> tw0, hu_wei |-> [v \in VarIds |-> 0],
   nVars |-> nbItems + nbTrans,
   order_heap |-> 0..(nbItems + nbTrans - 1),
   activity |-> [v \in VarIds |-> 0],
   diviser_state |-> 1, ind |-> 0, nbModels |-> 0, items |-> <<>>,
   max_clauses |-> 0, confl |-> CRef_Undef,
   emitted |-> <<>>, attempts |-> <<>>, watchBroken |-> FALSE,
   enc_vars |-> nbItems + nbTrans, enc_occ |-> [v \in Items |-> 0],
   gate |-> [weight |-> 0, clauses |-> 0],
   restart_first |-> opt_restart_first, nof_conflicts |-> 0, conflictC |-> 0,
   plog |-> <<>>, tailUnitLit |-> 0, extraUnits |-> <<>>, handed |-> 0]

\* uncheckedEnqueue without the weight of a reifier set false.
uncheckedEnqueue_noWeight(s, p, from) ==
  [s EXCEPT !.assigns[var(p)] = IF sign(p) = 0 THEN l_True ELSE l_False,
            !.vardata[var(p)] = [reason |-> from, level |-> decisionLevel(s)],
            !.trail = Append(@, p)]

\* uncheckedEnqueue that records the level below the current one.
uncheckedEnqueue_levelBelow(s, p, from) ==
  [s EXCEPT !.assigns[var(p)] = IF sign(p) = 0 THEN l_True ELSE l_False,
            !.vardata[var(p)] = [reason |-> from,
                                 level |-> IF decisionLevel(s) > 0
                                           THEN decisionLevel(s) - 1 ELSE 0],
            !.trail = Append(@, p),
            !.totalWeight = IF sign(p) = 1 /\ var(p) >= nbItems + nbTrans
                            THEN @ - s.hu_wei[var(p)] ELSE @]

\* void Solver::uncheckedEnqueue(Lit p, CRef from)
uncheckedEnqueue(s, p, from) ==
  [s EXCEPT !.assigns[var(p)] = IF sign(p) = 0 THEN l_True ELSE l_False,
            !.vardata[var(p)] = [reason |-> from, level |-> decisionLevel(s)],
            !.trail = Append(@, p),
            !.totalWeight = IF sign(p) = 1 /\ var(p) >= nbItems + nbTrans
                            THEN @ - s.hu_wei[var(p)] ELSE @]

\* The loop body without giving back the weight of a reifier.
Unassign_noWeight(s, from) ==
  LET popped == SubSeq(s.trail, from + 1, Len(s.trail))
  IN [s EXCEPT !.assigns = [v \in VarIds |->
                              IF \E k \in 1..Len(popped) : var(popped[k]) = v
                              THEN l_Undef ELSE s.assigns[v]],
               !.order_heap = @ \cup {var(popped[k]) : k \in
                                 {j \in 1..Len(popped) : var(popped[j]) < nbItems}}]

\* The loop body shared by cancelUntil and cancelAll, applied to the trail
\* positions from (0-based) onwards: unassign, give back the weight of a
\* reifier that was false, and put items back into the order heap.
Unassign(s, from) ==
  LET popped == SubSeq(s.trail, from + 1, Len(s.trail))
      back == [k \in 1..Len(popped) |->
                 IF sign(popped[k]) = 1 /\ var(popped[k]) >= nbItems + nbTrans
                 THEN s.hu_wei[var(popped[k])] ELSE 0]
  IN [s EXCEPT !.assigns = [v \in VarIds |->
                              IF \E k \in 1..Len(popped) : var(popped[k]) = v
                              THEN l_Undef ELSE s.assigns[v]],
               !.totalWeight = @ + SumSeq(back),
               !.order_heap = @ \cup {var(popped[k]) : k \in
                                 {j \in 1..Len(popped) : var(popped[j]) < nbItems}}]

\* void Solver::cancelUntil(int level)
cancelUntil(s, level) ==
  IF decisionLevel(s) > level
  THEN [Unassign(s, s.trail_lim[level + 1]) EXCEPT
          !.qhead = s.trail_lim[level + 1],
          !.trail = SubSeq(s.trail, 1, s.trail_lim[level + 1]),
          !.trail_lim = SubSeq(s.trail_lim, 1, level)]
  ELSE s

\* cancelAll that keeps the assignments of level 0.
cancelAll_keepRoot(s) == cancelUntil(s, 0)

\* void Solver::cancelAll()
cancelAll(s) ==
  [Unassign(s, 0) EXCEPT !.qhead = 0, !.trail = <<>>, !.trail_lim = <<>>,
                         !.handed = 0]

\* void Solver::newDecisionLevel()  (Solver.h)
newDecisionLevel(s) == [s EXCEPT !.trail_lim = Append(@, Len(s.trail))]

\* Var Solver::newVar(): the fresh variable is undefined, weight 0, and
\* setDecisionVar puts it into the order heap.
newVar(s) ==
  [s EXCEPT !.nVars = @ + 1,
            !.assigns[s.nVars] = l_Undef,
            !.vardata[s.nVars] = [reason |-> CRef_Undef, level |-> 0],
            !.activity[s.nVars] = 0,
            !.hu_wei[s.nVars] = 0,
            !.order_heap = @ \cup {s.nVars}]

\* void Solver::attachClause(CRef cr)
attachClause(s, cr) ==
  LET c == s.ca[cr + 1].lits
  IN [s EXCEPT !.watches[Neg(c[1])] = Append(@, [cref |-> cr, blocker |-> c[2]]),
               !.watches[Neg(c[2])] = Append(@, [cref |-> cr, blocker |-> c[1]])]

\* void Solver::removeClause(CRef cr): lazy detach (smudge both watch lists),
\* drop the reason of a locked clause, mark and free.
locked(s, cr) ==
  LET c == s.ca[cr + 1].lits
  IN value(s, c[1]) = l_True /\ s.vardata[var(c[1])].reason = cr
removeClause(s, cr) ==
  LET c == s.ca[cr + 1].lits
  IN [s EXCEPT !.dirty = @ \cup {Neg(c[1]), Neg(c[2])},
               !.vardata[var(c[1])].reason =
                   IF locked(s, cr) THEN CRef_Undef ELSE @,
               !.ca[cr + 1].mark = 1]

\* OccLists::cleanAll with WatcherDeleted: every smudged list loses the
\* watchers of marked clauses.
cleanAll(s) ==
  [s EXCEPT !.watches = [p \in LitIds |->
                           IF p \in s.dirty
                           THEN SelectSeq(s.watches[p],
                                          LAMBDA w : s.ca[w.cref + 1].mark = 0)
                           ELSE s.watches[p]],
            !.dirty = {}]

\* void Solver::reduceDB(): the guard is "if (1)", every clause is removed.
RECURSIVE removeAll(_, _)
removeAll(s, k) == IF k > Len(s.clauses) THEN s
                   ELSE removeAll(removeClause(s, s.clauses[k]), k + 1)
reduceDB(s) == [removeAll(s, 1) EXCEPT !.clauses = <<>>]

\* ------------------------------------------------------------ propagate
\* The two-watched-literal condition of a clause: c[0] and c[1] are both
\* unassigned or one of them is true.
WatchesFine(s, c) ==
  \/ value(s, c[1]) = l_True
  \/ value(s, c[2]) = l_True
  \/ (value(s, c[1]) = l_Undef /\ value(s, c[2]) = l_Undef)
NbUndef(s, c) == Cardinality({k \in 1..Len(c) : value(s, c[k]) = l_Undef})
IsSatisfied(s, c) == \E k \in 1..Len(c) : value(s, c[k]) = l_True
\* Some attached clause that is neither satisfied nor unit has a false
\* watched literal beside an unassigned one.
TwoWatchedBroken(s) ==
  \E k \in 1..Len(s.clauses) :
     LET c == s.ca[s.clauses[k] + 1].lits
     IN /\ ~IsSatisfied(s, c)
        /\ NbUndef(s, c) # 1
        /\ ~WatchesFine(s, c)

\* The first k >= 2 (0-based) with c[k] not false, or 0 when there is none.
NewWatch(s, c) ==
  LET ks == {k \in 3..Len(c) : value(s, c[k]) # l_False}
  IN IF ks = {} THEN 0 ELSE CHOOSE k \in ks : \A j \in ks : k <= j

\* An entry of plog, the record of the latest call of propagate: "deq" for
\* "p = trail[qhead++]", and for a watcher whose clause has no non-false
\* literal among c[2..] and whose c[0] is not true, "confl" (the clause is
\* the conflict), "unit" (c[0] is enqueued) or "skip" (the watcher is
\* copied back and the clause is not looked at).  low and ffalse are the
\* two tests at that point.
LogEntry(kind, cr, l, s) ==
  [kind |-> kind, cref |-> cr, lit |-> l,
   low |-> s.totalWeight < min_supp, ffalse |-> value(s, l) = l_False]
Logged(s, kind, cr, l) == [s EXCEPT !.plog = Append(@, LogEntry(kind, cr, l, s))]

\* "if (totalWeight < min_supp) ... else if (value(first) == l_False)": the
\* clause cr is the conflict.
WeightConflict(s, first) == s.totalWeight < min_supp \/ value(s, first) = l_False

\* The conflict that leaves qhead where it is.
ConflictAt_keepQhead(s, cr, p, ws) == [s EXCEPT !.confl = cr, !.watches[p] = ws]

\* "confl = cr; qhead = trail.size(); while (i < end) *j++ = *i++;": ws is
\* watches[p] with the remaining watchers copied.
ConflictAt(s, cr, p, ws) ==
  [s EXCEPT !.confl = cr, !.qhead = Len(s.trail), !.watches[p] = ws]

\* The inner loop of propagate over ws = watches[p]: i is the next watcher
\* to inspect, kept the watchers already copied back (j).
RECURSIVE PropWatchers(_, _, _, _, _)
PropWatchers(s, p, ws, i, kept) ==
  IF i > Len(ws) THEN [s EXCEPT !.watches[p] = kept]
  ELSE
    LET blocker == ws[i].blocker
        cr == ws[i].cref
        false_lit == Neg(p)
        c0 == s.ca[cr + 1].lits
        c == IF c0[1] = false_lit
             THEN [c0 EXCEPT ![1] = c0[2], ![2] = false_lit] ELSE c0
        first == c[1]
        w == [cref |-> cr, blocker |-> first]
        s1 == [s EXCEPT !.ca[cr + 1].lits = c]
        k == NewWatch(s1, c)
        c2 == [c EXCEPT ![2] = c[k], ![k] = false_lit]
    IN IF value(s, blocker) = l_True
       THEN PropWatchers(s, p, ws, i + 1, Append(kept, ws[i]))
       ELSE IF first # blocker
       THEN PropWatchers(IF k = 0 /\ value(s1, first) # l_True
                         THEN Logged(s1, "skip", cr, first) ELSE s1,
                         p, ws, i + 1, Append(kept, w))
       ELSE IF k # 0
       THEN PropWatchers([s1 EXCEPT !.ca[cr + 1].lits = c2,
                                    !.watches[Neg(c2[2])] = Append(@, w)],
                         p, ws, i + 1, kept)
       ELSE IF WeightConflict(s1, first)
       THEN ConflictAt(Logged(s1, "confl", cr, first), cr, p,
                       Append(kept, w) \o SubSeq(ws, i + 1, Len(ws)))
       ELSE PropWatchers(uncheckedEnqueue(Logged(s1, "unit", cr, first), first, cr),
                         p, ws, i + 1, Append(kept, w))

RECURSIVE PropLoop(_)
PropLoop(s) ==
  IF s.qhead < Len(s.trail)
  THEN LET p == s.trail[s.qhead + 1]
       IN PropLoop(PropWatchers(Logged([s EXCEPT !.qhead = @ + 1], "deq", CRef_Undef, p),
                                p, s.watches[p], 1, <<>>))
  ELSE s

\* CRef Solver::propagate(): the conflict is left in confl.  watchBroken
\* remembers whether some return of propagate without conflict left the
\* two-watched condition broken; plog records this call.
NoteWatches(r) ==
  [r EXCEPT !.watchBroken = @ \/ (r.confl = CRef_Undef /\ TwoWatchedBroken(r))]
propagate(s) ==
  NoteWatches(PropLoop([cleanAll(s) EXCEPT !.confl = CRef_Undef, !.plog = <<>>]))

\* ------------------------------------------------------------ addClause_
\* The scan of addClause_ over the sorted literals: p is the last literal
\* kept.  sat is set when the clause is satisfied or a tautology.
RECURSIVE ScanClause(_, _, _, _, _)
ScanClause(s, ps, i, p, out) ==
  IF i > Len(ps) THEN [sat |-> FALSE, lits |-> out]
  ELSE IF value(s, ps[i]) = l_True \/ (p # lit_Undef /\ ps[i] = Neg(p))
       THEN [sat |-> TRUE, lits |-> out]
       ELSE IF value(s, ps[i]) # l_False /\ ps[i] # p
            THEN ScanClause(s, ps, i + 1, ps[i], Append(out, ps[i]))
            ELSE ScanClause(s, ps, i + 1, p, out)

\* bool Solver::addClause_(vec<Lit>& ps)
\* "return ok = (propagate() == CRef_Undef)"
OkOfPropagate(t) == [t EXCEPT !.ok = (t.confl = CRef_Undef)]
\* addClause_ once the literals are scanned: r is the result of the scan.
AddScanned(s, r) ==
  IF r.sat THEN s
  ELSE IF Len(r.lits) = 0 THEN [s EXCEPT !.ok = FALSE]
  ELSE IF Len(r.lits) = 1
       THEN OkOfPropagate(propagate(uncheckedEnqueue(s, r.lits[1], CRef_Undef)))
  ELSE attachClause([s EXCEPT !.ca = Append(@, [lits |-> r.lits, mark |-> 0]),
                              !.clauses = Append(@, Len(s.ca))],
                    Len(s.ca))
addClause_(s, ps) ==
  IF ~s.ok THEN s ELSE AddScanned(s, ScanClause(s, sort(ps), 1, lit_Undef, <<>>))

\* ------------------------------------------------------ garbage collection
\* The arena counts one header word and one word per literal of a clause.
garbage_frac_den == 5
ClauseWords(c) == 1 + Len(c.lits)
RECURSIVE ArenaWords(_, _)
ArenaWords(ca, onlyMarked) ==
  IF ca = <<>> THEN 0
  ELSE (IF onlyMarked /\ Head(ca).mark = 0 THEN 0 ELSE ClauseWords(Head(ca)))
       + ArenaWords(Tail(ca), onlyMarked)
\* garbageCollect/relocAll: the live clauses move to a new arena and every
\* holder of a handle (watchers, reasons, the clause list) is forwarded.
\* The new handle of clause cr, live being the handles that survive.
reloc(s, live, cr) ==
  IF cr = CRef_Undef \/ s.ca[cr + 1].mark = 1 THEN CRef_Undef
  ELSE (CHOOSE k \in 1..Len(live) : live[k] = cr) - 1
relocAll(s, live) ==
  [s EXCEPT !.ca = [k \in 1..Len(live) |-> s.ca[live[k] + 1]],
            !.clauses = [k \in 1..Len(s.clauses) |-> reloc(s, live, s.clauses[k])],
            !.watches = [p \in LitIds |->
                           [k \in 1..Len(s.watches[p]) |->
                              [s.watches[p][k] EXCEPT !.cref = reloc(s, live, @)]]],
            !.vardata = [v \in VarIds |->
                           [s.vardata[v] EXCEPT !.reason = reloc(s, live, @)]]]
LiveClauses(s) ==
  relocAll(s, SelectSeq([k \in 1..Len(s.ca) |-> k - 1],
                        LAMBDA cr : s.ca[cr + 1].mark = 0))
garbageCollect(s0) == LiveClauses(cleanAll(s0))
\* void Solver::checkGarbage()  (Solver.h): wasted > size * garbage_frac
checkGarbage(s) ==
  IF garbage_frac_den * ArenaWords(s.ca, TRUE) > ArenaWords(s.ca, FALSE)
  THEN garbageCollect(s) ELSE s

\* ----------------------------------------------------- encodeGuidingPath
verbosity == 0

\* add_closure_constraints that adds no clause.
add_closure_constraints_none(s, item, trans, app) == s

\* add_closure_constraints(item, trans, app) and (trans, app): the
\* transactions of trans outside app, plus the item when there is one.
add_closure_constraints(s, item, trans, app) ==
  LET liste == SelectSeq(trans, LAMBDA q : \A k \in 1..Len(app) : var(app[k]) # var(q))
  IN addClause_(s, IF item = lit_Undef THEN liste ELSE Append(liste, item))

\* add_support_constraints without its binary clauses.
SupportBinaries_none(s, num, lastTrans, i) == s

\* The last loop of add_support_constraints: for every item outside the
\* transaction that is not false, the clause (~num \/ ~item).
RECURSIVE SupportBinaries(_, _, _, _)
SupportBinaries(s, num, lastTrans, i) ==
  IF i > Len(s.items) THEN s
  ELSE IF (\A k \in 1..Len(lastTrans) : var(lastTrans[k]) # var(s.items[i]))
          /\ value(s, s.items[i]) # l_False
       THEN SupportBinaries(addClause_(s, <<mkLit(num, 1), Neg(s.items[i])>>),
                            num, lastTrans, i + 1)
       ELSE SupportBinaries(s, num, lastTrans, i + 1)

\* void Solver::add_support_constraints(int num, vec<Lit>& lastTrans, vec<Lit>& items)
\* add_support_constraints after its first clause (verbosity == 1 only).
SupportRest(s1, num, lastTrans) ==
  SupportBinaries(
    IF verbosity = 1
    THEN addClause_(s1, Append(SelectSeq(s1.items,
                                 LAMBDA q : (\A k \in 1..Len(lastTrans) :
                                               var(lastTrans[k]) # var(q))
                                            /\ value(s1, q) # l_False),
                               mkLit(num, 0)))
    ELSE s1,
    num, lastTrans, 1)
add_support_constraints(s, num, lastTrans) ==
  SupportRest(IF verbosity = 1
              THEN addClause_(s, Append(lastTrans, mkLit(num, 1))) ELSE s,
              num, lastTrans)

\* The locals of encodeGuidingPath while it walks the projected database:
\* s the solver, init_vars, wcurTrans, occ, local_trans, seen, currentDB.
\* "local_trans[var(r)].push(q); if (!seen[var(r)]) items.push(r)" for the
\* item at position j (1-based) of transaction num.
PushItem(e, num, j) ==
  LET r == list_transactions(num)[j]
  IN [e EXCEPT !.local_trans[var(r)] = Append(@, mkLit(num + nbItems, 0)),
               !.seen = @ \cup {var(r)},
               !.s.items = IF var(r) \in e.seen THEN @ ELSE Append(@, r)]
\* The reifier of an item that is not false: a fresh or reused variable a
\* with (~a \/ q), (~a \/ r) and its weight.
EncodeItem(e, num, j) ==
  LET w == wItemTrans(num)[j]
      a == mkLit(e.init_vars, 0)
      s1 == IF e.init_vars < nVars(e.s) THEN e.s ELSE newVar(e.s)
      s2 == addClause_(addClause_(s1, <<Neg(a), mkLit(num + nbItems, 0)>>),
                       <<Neg(a), list_transactions(num)[j]>>)
  IN [e EXCEPT !.s = [s2 EXCEPT !.hu_wei[var(a)] = w, !.totalWeight = @ + w],
               !.init_vars = @ + 1, !.wcurTrans = @ + w]

RECURSIVE EncodeItems(_, _, _)
EncodeItems(e, num, j) ==
  IF j > Len(list_transactions(num)) THEN e
  ELSE IF value(e.s, list_transactions(num)[j]) # l_False
       THEN EncodeItems(PushItem(EncodeItem(e, num, j), num, j), num, j + 1)
       ELSE EncodeItems(PushItem(e, num, j), num, j + 1)

\* "occ[var(r)] += wcurTrans" for the items r of transaction num.
TallyOcc(e1, num) ==
  [e1 EXCEPT !.occ = [v \in Items |->
                        IF v \in db[num + 1].items
                        THEN e1.occ[v] + e1.wcurTrans ELSE e1.occ[v]]]
\* The loop over the transactions of appearTrans[var(p)]: currentDB holds
\* one literal per transaction already walked.
RECURSIVE EncodeTransactions(_, _)
EncodeTransactions(e, tids) ==
  IF Len(e.currentDB) >= Len(tids) THEN e
  ELSE EncodeTransactions(
         TallyOcc(EncodeItems([e EXCEPT !.currentDB = Append(@, mkLit(tids[Len(@) + 1] + nbItems, 0)),
                                        !.wcurTrans = 0],
                              tids[Len(e.currentDB) + 1], 1),
                  tids[Len(e.currentDB) + 1]),
         tids)

\* The encoder without item pruning.
PruneItems_none(s, occ, i) == s

\* Item pruning: an undefined item whose occ is below min_supp is set
\* false and propagated, the result of propagate being ignored.
RECURSIVE PruneItems(_, _, _)
PruneItems(s, occ, i) ==
  IF i > Len(s.items) THEN s
  ELSE IF value(s, s.items[i]) = l_Undef /\ occ[var(s.items[i])] < min_supp
       THEN PruneItems(propagate(uncheckedEnqueue(s, Neg(s.items[i]), CRef_Undef)),
                       occ, i + 1)
       ELSE PruneItems(s, occ, i + 1)

\* The guiding path that asserts its item and leaves the earlier items
\* open.
GuidingPrefix_onlyItem(s, index, i) == uncheckedEnqueue(s, allItems[index], CRef_Undef)

\* "for (i = 0; i < index-1; i++) uncheckedEnqueue(~allItems[i]);
\* uncheckedEnqueue(allItems[i]);"
RECURSIVE GuidingPrefix(_, _, _)
GuidingPrefix(s, index, i) ==
  IF i >= index THEN uncheckedEnqueue(s, allItems[index], CRef_Undef)
  ELSE GuidingPrefix(uncheckedEnqueue(s, Neg(allItems[i]), CRef_Undef), index, i + 1)

\* addClause_ adds nothing once ok is false, and the loop stops there.
RECURSIVE SupportAll(_, _, _)
SupportAll(s, tids, i) ==
  IF i > Len(tids) \/ ~s.ok THEN s
  ELSE SupportAll(add_support_constraints(s, tids[i] + nbItems,
                                          list_transactions(tids[i])),
                  tids, i + 1)

RECURSIVE ClosureItems(_, _, _)
ClosureItems(e, s, i) ==
  IF i > Len(s.items) THEN s
  ELSE IF value(s, s.items[i]) # l_True
       THEN ClosureItems(e, add_closure_constraints(s, s.items[i], e.currentDB,
                                                    e.local_trans[var(s.items[i])]),
                         i + 1)
       ELSE ClosureItems(e, s, i + 1)

\* The closure clauses of the items divided before: allItems[i], 0-based i
\* from div_begining to index-2.
RECURSIVE ClosureDivided(_, _, _, _)
ClosureDivided(e, s, index, i) ==
  IF i >= index - 1 THEN s
  ELSE IF min_supp <= e.occ[var(allItems[i + 1])]
       THEN ClosureDivided(e, add_closure_constraints(s, lit_Undef, e.currentDB,
                                                      e.local_trans[var(allItems[i + 1])]),
                           index, i + 1)
       ELSE ClosureDivided(e, s, index, i + 1)

\* encodeGuidingPath without its early return.
encodeReturns_always(index) == TRUE

\* The value encodeGuidingPath(coop, index) returns.
encodeReturns(index) == ~(wocc(var(allItems[index])) < min_supp)

\* encodeGuidingPath from "if (clauses.size() > max_clauses)" on.
EncodeEnd(sd) ==
  IF Len(sd.clauses) > sd.max_clauses
  THEN [checkGarbage(sd) EXCEPT !.max_clauses = (@ * 11) \div 10]
  ELSE [sd EXCEPT !.max_clauses = (@ * 9) \div 10]
\* The activities set without rebuilding the heap, which keeps the
\* variables newVar put there.
EncodeHeap_keepHeap(e, sc, vs, current_dabase_size) ==
  EncodeEnd([sc EXCEPT !.activity = [v \in VarIds |->
                                      IF v \in vs
                                      THEN current_dabase_size - Len(e.local_trans[v])
                                      ELSE sc.activity[v]],
                       !.order_heap = @ \cup vs,
                       !.enc_vars = e.init_vars,
                       !.enc_occ = e.occ])

\* The heap rebuilt with the activity being the number of transactions of
\* p with the item (commonest first).
EncodeHeap_commonFirst(e, sc, vs, current_dabase_size) ==
  EncodeEnd([sc EXCEPT !.activity = [v \in VarIds |->
                                      IF v \in vs
                                      THEN Len(e.local_trans[v])
                                      ELSE sc.activity[v]],
                       !.order_heap = vs,
                       !.enc_vars = e.init_vars,
                       !.enc_occ = e.occ])

\* The heap rebuilt with the undefined items vs, their activity being the
\* number of transactions of p without the item.
EncodeHeap(e, sc, vs, current_dabase_size) ==
  EncodeEnd([sc EXCEPT !.activity = [v \in VarIds |->
                                      IF v \in vs
                                      THEN current_dabase_size - Len(e.local_trans[v])
                                      ELSE sc.activity[v]],
                       !.order_heap = vs,
                       !.enc_vars = e.init_vars,
                       !.enc_occ = e.occ])
EncodeOrder(e, sc, current_dabase_size) ==
  EncodeHeap(e, sc,
             {var(sc.items[i]) : i \in {k \in 1..Len(sc.items) :
                                          value(sc, sc.items[k]) = l_Undef}},
             current_dabase_size)
\* The closure clauses, when enum_clos == 1.
EncodeClosure(e, sup, index) ==
  IF enum_clos = 1
  THEN ClosureDivided(e, ClosureItems(e, sup, 1), index, div_begining)
  ELSE sup
\* gate remembers totalWeight and the number of clauses at the test
\* "if (coop->min_supp <= totalWeight)".
AtGate(sb) == [sb EXCEPT !.gate = [weight |-> sb.totalWeight, clauses |-> Len(sb.clauses)]]

\* The support and closure clauses added whatever totalWeight is.
EncodeGate_open(e, sb, tids, index) == EncodeClosure(e, SupportAll(sb, tids, 1), index)

\* "if (coop->min_supp <= totalWeight)": the support and closure clauses.
EncodeGate(e, sb, tids, index) ==
  IF min_supp <= sb.totalWeight
  THEN EncodeClosure(e, SupportAll(sb, tids, 1), index)
  ELSE sb
\* The support and closure clauses, when totalWeight reaches min_supp.
EncodeConstraints(e, sb, tids, index) ==
  EncodeOrder(e, EncodeGate(e, AtGate(sb), tids, index), Len(tids))
EncodePrune(e, tids, index) ==
  EncodeConstraints(e, PruneItems(e.s, e.occ, 1), tids, index)
EncodeProjected(sa, tids, index) ==
  EncodePrune(EncodeTransactions(
                [s |-> [sa EXCEPT !.totalWeight = 0],
                 init_vars |-> nbItems + nbTrans, wcurTrans |-> 0,
                 occ |-> [v \in Items |-> 0],
                 local_trans |-> [v \in Items |-> <<>>],
                 seen |-> {var(allItems[i]) : i \in 1..(index - 1)},
                 currentDB |-> <<>>],
                tids),
              tids, index)

\* encodeGuidingPath that tests wocc after the guiding path literals.
encodeGuidingPath_lateAbort(s0, index) ==
  IF ~encodeReturns(index) THEN GuidingPrefix([s0 EXCEPT !.items = <<>>], index, 1)
  ELSE EncodeProjected(GuidingPrefix([s0 EXCEPT !.items = <<>>], index, 1),
                       appearTrans(var(allItems[index])), index)

\* bool Solver::encodeGuidingPath(Cooperation* coop, int index)
encodeGuidingPath(s0, index) ==
  IF ~encodeReturns(index) THEN [s0 EXCEPT !.items = <<>>]
  ELSE EncodeProjected(GuidingPrefix([s0 EXCEPT !.items = <<>>], index, 1),
                       appearTrans(var(allItems[index])), index)

\* ----------------------------------------------------------------- luby
\* static double luby(double y, int x): the first loop finds the finite
\* subsequence that contains index x, the second descends into it.
RECURSIVE LubyGrow(_, _, _)
LubyGrow(size, seq, x) ==
  IF size < x + 1 THEN LubyGrow(2 * size + 1, seq + 1, x)
  ELSE [size |-> size, seq |-> seq]
RECURSIVE LubyShrink_keepSeq(_, _, _)
LubyShrink_keepSeq(size, seq, x) ==
  IF size - 1 # x
  THEN LubyShrink_keepSeq((size - 1) \div 2, seq, x % ((size - 1) \div 2))
  ELSE seq
RECURSIVE LubyShrink(_, _, _)
LubyShrink(size, seq, x) ==
  IF size - 1 # x
  THEN LubyShrink((size - 1) \div 2, seq - 1, x % ((size - 1) \div 2))
  ELSE seq
luby(y, x) == LET g == LubyGrow(1, 0, x) IN y ^ LubyShrink(g.size, g.seq, x)

\* --------------------------------------------------------------- search
\* The loop "while (ind < allItems.size() && !encodeGuidingPath(coop, ind+1))
\* ind += nbThreads" of solve_ and of search.  attempts logs every ind
\* handed to encodeGuidingPath.
\* One pass: encodeGuidingPath(coop, ind+1).
EncodePass(s) == [encodeGuidingPath(s, s.ind + 1) EXCEPT !.attempts = Append(@, s.ind)]
RECURSIVE EncodeLoop(_)
\* The loop advancing by one index instead of nbThreads.
EncodeAgain_step1(t) ==
  IF encodeReturns(t.ind + 1) THEN t
  ELSE EncodeLoop([t EXCEPT !.ind = @ + 1])
EncodeAgain(t) ==
  IF encodeReturns(t.ind + 1) THEN t
  ELSE EncodeLoop([t EXCEPT !.ind = @ + t.nbThreads])
EncodeLoop(s) ==
  IF s.ind < Len(allItems) THEN EncodeAgain(EncodePass(s)) ELSE s

\* The flip that backtracks to the root instead of one level.
FlipLastDecision_toRoot(s) ==
  LET q == s.trail[s.trail_lim[Len(s.trail_lim)] + 1]
  IN uncheckedEnqueue(cancelUntil(s, 0), Neg(q), CRef_Undef)

\* "Lit q = trail[trail_lim.last()]; cancelUntil(decisionLevel()-1);
\* uncheckedEnqueue(~q)": the one-level flip of the last decision.
FlipLastDecision(s) ==
  LET q == s.trail[s.trail_lim[Len(s.trail_lim)] + 1]
  IN uncheckedEnqueue(cancelUntil(s, decisionLevel(s) - 1), Neg(q), CRef_Undef)

\* "diviser_state = 0; cancelAll(); goto div_section"
GoUndivided(s) == [cancelAll(s) EXCEPT !.diviser_state = 0, !.pc = "div"]

\* The backtrack that always leaves the guiding path.
Backtrack_toDiv(s) == GoUndivided(s)

\* "if (decisionLevel() == 0) { diviser_state = 0; cancelAll(); goto
\* div_section; }", else the flip and "goto Prop".
Backtrack(s) ==
  IF decisionLevel(s) = 0 THEN GoUndivided(s)
  ELSE [FlipLastDecision(s) EXCEPT !.pc = "prop"]

\* The variables pickBranchLit can return: the undefined decision variables
\* of the order heap of greatest activity.
BranchCandidates(s) ==
  {v \in s.order_heap :
     /\ s.assigns[v] = l_Undef
     /\ \A u \in s.order_heap : s.assigns[u] = l_Undef => s.activity[u] <= s.activity[v]}
\* The heap after pickBranchLit returned next (var_Undef = -1 when the heap
\* ran empty): everything removed before next is gone.
var_Undef == -1
HeapAfterPick(s, next) ==
  IF next = var_Undef THEN {}
  ELSE {u \in s.order_heap : u # next /\
          (s.assigns[u] = l_Undef \/ s.activity[u] < s.activity[next])}

\* The item variables that are true: the itemset search prints for a model.
ItemsetOf(s) == {v \in Items : s.assigns[v] = l_True}

\* solve_ after its loop over encodeGuidingPath: return l_False when the
\* stride is exhausted, else enter search ("ind += nbThreads", Prop).
SolveEncoded(s1) ==
  IF s1.ind >= Len(allItems)
  THEN [s1 EXCEPT !.status = l_False, !.pc = "done"]
  ELSE [s1 EXCEPT !.ind = @ + s1.nbThreads, !.tailUnitLit = 0,
                  !.nof_conflicts = luby(opt_restart_inc, 0) * s1.restart_first,
                  !.conflictC = 0, !.pc = "prop"]
SolveFrom(s0) ==
  IF ~s0.ok THEN [s0 EXCEPT !.status = l_False, !.pc = "done"]
  ELSE SolveEncoded(EncodeLoop(s0))

\* solve_ starting every worker at index 0.
Solve_fromZero(i) ==
  /\ sv[i].pc = "solve"
  /\ \A j \in DOMAIN sv : sv[j].nbThreads < sv[i].nbThreads => sv[j].pc = "done"
  /\ sv' = [sv EXCEPT ![i] =
              SolveFrom([sv[i] EXCEPT !.nbModels = 0, !.diviser_state = 1,
                                      !.max_clauses = 100, !.ind = 0])]
  /\ UNCHANGED <<db, min_supp, enum_clos, lb>>

\* lbool Solver::solve_(Cooperation* coop), up to the first pass of the
\* loop of search.
Solve(i) ==
  /\ sv[i].pc = "solve"
  /\ \A j \in DOMAIN sv : sv[j].nbThreads < sv[i].nbThreads => sv[j].pc = "done"
  /\ sv' = [sv EXCEPT ![i] =
              SolveFrom([sv[i] EXCEPT !.nbModels = 0, !.diviser_state = 1,
                                      !.max_clauses = 100, !.ind = sv[i].threadId])]
  /\ UNCHANGED <<db, min_supp, enum_clos, lb>>

\* search, "Prop: CRef confl = propagate();"
Propagate(i) ==
  /\ sv[i].pc = "prop"
  /\ sv' = [sv EXCEPT ![i] = [propagate(sv[i]) EXCEPT !.pc = "post"]]
  /\ UNCHANGED <<db, min_supp, enum_clos, lb>>

\* The test of the CONFLICT branch without "!ok".
HasConflict_noOk(s) == s.confl # CRef_Undef

\* "if (!ok || confl != CRef_Undef)"
HasConflict(s) == ~s.ok \/ s.confl # CRef_Undef

\* "if (!ok || decisionLevel() == 0) { diviser_state = 0; cancelAll(); goto
\* div_section; }", else the flip of the last decision.
ConflictBranch(s) ==
  IF ~s.ok \/ decisionLevel(s) = 0 THEN GoUndivided(s)
  ELSE [FlipLastDecision(s) EXCEPT !.pc = "prop"]
\* search, the CONFLICT branch: "conflicts++; conflictC++;" and the branch.
Conflict(i) ==
  /\ sv[i].pc = "post"
  /\ HasConflict(sv[i])
  /\ sv' = [sv EXCEPT ![i] = ConflictBranch([sv[i] EXCEPT !.conflictC = @ + 1])]
  /\ UNCHANGED <<db, min_supp, enum_clos, lb>>

\* div_section without "ind += nbThreads" after the encoding.
DivideEncoded_noAdvance(s1) ==
  IF s1.ind >= Len(allItems)
  THEN [s1 EXCEPT !.status = l_False, !.pc = "ret"]
  ELSE [s1 EXCEPT !.diviser_state = 1, !.pc = "prop"]

\* div_section after its loop over encodeGuidingPath.
DivideEncoded(s1) ==
  IF s1.ind >= Len(allItems)
  THEN [s1 EXCEPT !.status = l_False, !.pc = "ret"]
  ELSE [s1 EXCEPT !.diviser_state = 1, !.ind = @ + s1.nbThreads, !.pc = "prop"]
\* search, div_section with diviser_state == 0
Divide(i) ==
  /\ \/ sv[i].pc = "div"
     \/ sv[i].pc = "post" /\ ~HasConflict(sv[i]) /\ sv[i].diviser_state = 0
  /\ sv' = [sv EXCEPT ![i] =
              IF sv[i].ind < Len(allItems)
              THEN DivideEncoded(EncodeLoop(reduceDB([sv[i] EXCEPT !.ok = TRUE])))
              ELSE [sv[i] EXCEPT !.status = l_False, !.pc = "ret"]]
  /\ UNCHANGED <<db, min_supp, enum_clos, lb>>

\* search, "if (totalWeight < coop->min_supp)"
WeightDeficit(i) ==
  /\ sv[i].pc = "post"
  /\ ~HasConflict(sv[i])
  /\ sv[i].diviser_state # 0
  /\ sv[i].totalWeight < min_supp
  /\ sv' = [sv EXCEPT ![i] = Backtrack(sv[i])]
  /\ UNCHANGED <<db, min_supp, enum_clos, lb>>

\* The decision taken without looking at totalWeight.
Decide_anyWeight(i) ==
  /\ sv[i].pc = "post"
  /\ ~HasConflict(sv[i])
  /\ sv[i].diviser_state # 0
  /\ \E next \in BranchCandidates(sv[i]) :
       sv' = [sv EXCEPT ![i] =
                [uncheckedEnqueue(
                   newDecisionLevel([sv[i] EXCEPT !.order_heap = HeapAfterPick(sv[i], next)]),
                   mkLit(next, 0), CRef_Undef)
                 EXCEPT !.pc = "prop"]]
  /\ UNCHANGED <<db, min_supp, enum_clos, lb>>

\* search, a new decision: pickBranchLit returned a literal
Decide(i) ==
  /\ sv[i].pc = "post"
  /\ ~HasConflict(sv[i])
  /\ sv[i].diviser_state # 0
  /\ ~(sv[i].totalWeight < min_supp)
  /\ \E next \in BranchCandidates(sv[i]) :
       sv' = [sv EXCEPT ![i] =
                [uncheckedEnqueue(
                   newDecisionLevel([sv[i] EXCEPT !.order_heap = HeapAfterPick(sv[i], next)]),
                   mkLit(next, 0), CRef_Undef)
                 EXCEPT !.pc = "prop"]]
  /\ UNCHANGED <<db, min_supp, enum_clos, lb>>

\* search, pickBranchLit returned lit_Undef: a model is recorded
Model(i) ==
  /\ sv[i].pc = "post"
  /\ ~HasConflict(sv[i])
  /\ sv[i].diviser_state # 0
  /\ ~(sv[i].totalWeight < min_supp)
  /\ BranchCandidates(sv[i]) = {}
  /\ sv' = [sv EXCEPT ![i] =
              Backtrack([sv[i] EXCEPT !.order_heap = HeapAfterPick(sv[i], var_Undef),
                                      !.nbModels = @ + 1,
                                      !.emitted = Append(@, ItemsetOf(sv[i]))])]
  /\ UNCHANGED <<db, min_supp, enum_clos, lb>>

\* solve_ after search returned: l_False with an empty conflict clears ok,
\* then cancelUntil(0) and return status.
Return(i) ==
  /\ sv[i].pc = "ret"
  /\ sv' = [sv EXCEPT ![i] =
              [cancelUntil([sv[i] EXCEPT !.ok = IF sv[i].status = l_False THEN FALSE ELSE @], 0)
               EXCEPT !.pc = "done"]]
  /\ UNCHANGED <<db, min_supp, enum_clos, lb>>

UninitWeights == {0, 7}

\* One worker of a run of nth workers, followed alone: search reads nothing
\* of another worker.
Init ==
  /\ db \in DataBases
  /\ min_supp \in 0..MaxSupp
  /\ enum_clos \in {0, 1}
  /\ lb = [pc |-> "idle"]
  /\ \E nth \in 1..NbThreads : \E tid \in 0..(nth - 1) : \E tw0 \in UninitWeights :
       sv = [i \in {tid} |-> NewSolver(tid, nth, tw0)]

Next ==
  \/ \E i \in DOMAIN sv : Solve(i)
  \/ \E i \in DOMAIN sv : Propagate(i)
  \/ \E i \in DOMAIN sv : Conflict(i)
  \/ \E i \in DOMAIN sv : Divide(i)
  \/ \E i \in DOMAIN sv : WeightDeficit(i)
  \/ \E i \in DOMAIN sv : Decide(i)
  \/ \E i \in DOMAIN sv : Model(i)
  \/ \E i \in DOMAIN sv : Return(i)

Spec == Init /\ [][Next]_vars

AllDone == \A i \in DOMAIN sv : sv[i].pc = "done"
\* ------------------------------------------------------- mining notions
\* The transactions (1-based positions of db) that contain every item of S.
Cover(S) == {t \in 1..nbTrans : S \subseteq db[t].items}
\* The aggregate weight of S: over the transactions that contain S, the
\* weights of the items of S.
AggregateWeight(S) ==
  SumFn([t \in 1..nbTrans |-> SumFn(db[t].w, S \cap db[t].items)], Cover(S))
Closed(S) == \A i \in Items \ S : Cover(S \cup {i}) # Cover(S)
Qualifying == {S \in ItemSets : AggregateWeight(S) >= min_supp
                                /\ (enum_clos = 1 => Closed(S))}

\* -------------------------------------------- the run with NbThreads workers
\* Solver 0 is the run with one worker; solvers 1..NbThreads are the
\* workers (threadId 0..NbThreads-1) of a second run on the same input,
\* started once the first run has returned.
ParMaxTrans == 2
ParWorkers == 1..NbThreads
InitPar ==
  /\ db \in {d \in DataBases : Len(d) <= ParMaxTrans}
  /\ min_supp \in 0..MaxSupp
  /\ enum_clos \in {0, 1}
  /\ lb = [pc |-> "idle"]
  /\ sv = [i \in 0..NbThreads |->
             IF i = 0 THEN NewSolver(0, 1, 0) ELSE NewSolver(i - 1, NbThreads, 0)]
SpecPar == InitPar /\ [][Next]_vars

\* ------------------------------------------------------------ interrupt
\* Solver::interrupt(): another thread sets asynch_interrupt while the
\* worker is in search.
Interrupt(i) ==
  /\ sv[i].pc \in {"prop", "post", "div"}
  /\ ~sv[i].asynch_interrupt
  /\ sv' = [sv EXCEPT ![i].asynch_interrupt = TRUE]
  /\ UNCHANGED <<db, min_supp, enum_clos, lb>>
NextInt == Next \/ \E i \in DOMAIN sv : Interrupt(i)
SpecInt == Init /\ [][NextInt]_vars

\* ------------------------------------------------------ cooperation hub
\* The NbThreads workers of one run, with the exchange of units.
\* "for (i = tailUnitLit; i < trail.size(); i++) coop->exportExtraUnit(this,
\* trail[i])": the literals exportClause hands to the hub at level 0.
ExportUnits(s) == SubSeq(s.trail, s.tailUnitLit + 1, Len(s.trail))
\* Cooperation::exportExtraUnit: the unit goes to the inbox of every other
\* worker.
exportExtraUnit(svs, i, units) ==
  [j \in DOMAIN svs |->
     IF j = i THEN svs[j] ELSE [svs[j] EXCEPT !.extraUnits = @ \o units]]
\* void Solver::exportClause(Cooperation* coop, vec<Lit>& learnt_clause) at
\* decision level 0, the size limit of the hub being at least 1.
exportClause(svs, i) ==
  exportExtraUnit([svs EXCEPT ![i].tailUnitLit = Len(svs[i].trail),
                              ![i].handed = Len(svs[i].trail)],
                  i, ExportUnits(svs[i]))
\* A worker in search exports at level 0 (search fills no learnt clause, so
\* the branch of the higher levels has nothing to hand over).  The inboxes
\* hold at most MaxInbox units.
MaxInbox == 2
ExportWithin(i, cap) ==
  /\ sv[i].pc \in {"prop", "post"}
  /\ decisionLevel(sv[i]) = 0
  /\ sv[i].tailUnitLit # Len(sv[i].trail)
  /\ \A j \in DOMAIN sv \ {i} :
       Len(sv[j].extraUnits) + Len(ExportUnits(sv[i])) <= cap
  /\ sv' = exportClause(sv, i)
  /\ UNCHANGED <<db, min_supp, enum_clos, lb>>
Export(i) == ExportWithin(i, MaxInbox)

\* void Solver::propagateExtraUnits(): every inbox unit that is undefined is
\* enqueued.  A unit over a variable the worker has not created reads
\* assigns out of bounds: oob tells whether that read gives l_Undef.
RECURSIVE propagateExtraUnits(_, _, _)
propagateExtraUnits(s, i, oob) ==
  IF i > Len(s.extraUnits) THEN s
  ELSE IF IF var(s.extraUnits[i]) < nVars(s)
          THEN value(s, s.extraUnits[i]) = l_Undef ELSE oob
       THEN propagateExtraUnits(uncheckedEnqueue(s, s.extraUnits[i], CRef_Undef),
                                i + 1, oob)
       ELSE propagateExtraUnits(s, i + 1, oob)
\* A worker drains its inbox at level 0, before propagate.
Import(i) ==
  /\ sv[i].pc = "prop"
  /\ decisionLevel(sv[i]) = 0
  /\ \E oob \in BOOLEAN :
       /\ propagateExtraUnits(sv[i], 1, oob) # sv[i]
       /\ sv' = [sv EXCEPT ![i] = propagateExtraUnits(sv[i], 1, oob)]
  /\ UNCHANGED <<db, min_supp, enum_clos, lb>>

HubTrans == 2
HubSupp == 2
InitHub ==
  /\ db \in {DataBase(shape, NbItems) : shape \in {d \in Shapes : Len(d) <= HubTrans}}
  /\ min_supp \in 1..HubSupp
  /\ enum_clos \in {0, 1}
  /\ lb = [pc |-> "idle"]
  /\ sv = [i \in 0..(NbThreads - 1) |-> NewSolver(i, NbThreads, 0)]
NextHub ==
  \/ Next
  \/ \E i \in DOMAIN sv : Export(i)
  \/ \E i \in DOMAIN sv : Import(i)
SpecHub == InitHub /\ [][NextHub]_vars

\* The same workers with inboxes of UnitsInbox units, room for the exports
\* of two guiding paths, which no worker drains.
UnitsInbox == 3
InitUnits ==
  /\ db \in {DataBase(shape, NbItems) : shape \in {d \in Shapes : Len(d) <= HubTrans}}
  /\ min_supp \in 1..HubSupp
  /\ enum_clos \in {0, 1}
  /\ lb = [pc |-> "idle"]
  /\ sv = [i \in 0..(NbThreads - 1) |-> NewSolver(i, NbThreads, 0)]
NextUnits ==
  \/ Next
  \/ \E i \in DOMAIN sv : ExportWithin(i, UnitsInbox)
SpecUnits == InitUnits /\ [][NextUnits]_vars

\* "for (t = 0; t < coop->nbThreads; t++) coop->solvers[t].addClause(lits)"
AddToAll(svs, lits) == [t \in DOMAIN svs |-> addClause_(svs[t], lits)]
\* The second loop of Equiv: for every literal of lits but the last (q), the
\* clause (~q \/ ~lits[k]) goes to every solver.
RECURSIVE EquivBinaries(_, _, _, _)
EquivBinaries(svs, q, lits, k) ==
  IF k > Len(lits) - 1 THEN svs
  ELSE EquivBinaries(AddToAll(svs, <<Neg(q), Neg(lits[k])>>), q, lits, k + 1)
\* void Solver::Equiv(Lit q, vec<Lit>& lits, Cooperation* coop), run by
\* worker i before the workers start (addClause_ asserts level 0), once,
\* on an item q and one other item.
Equiv(i) ==
  /\ \A t \in DOMAIN sv : sv[t].pc = "solve" /\ sv[t].ca = <<>>
  /\ \E a \in Items : \E b \in Items :
       /\ b < a
       /\ sv' = EquivBinaries(AddToAll(sv, <<mkLit(b, 0), mkLit(a, 0)>>),
                              mkLit(a, 0), <<mkLit(b, 0), mkLit(a, 0)>>, 1)
  /\ UNCHANGED <<db, min_supp, enum_clos, lb>>
NextEquiv == NextHub \/ \E i \in DOMAIN sv : Equiv(i)
SpecEquiv == InitHub /\ [][NextEquiv]_vars

\* --------------------------------------------- databases of DeepTrans rows
\* One worker, closed mode, unit weights, on databases of exactly DeepTrans
\* transactions: closure clauses of four literals appear.
DeepTrans == 4
DeepSupp == 2
InitDeep ==
  /\ db \in {DataBase(shape, NbItems) :
              shape \in {d \in [1..DeepTrans -> ItemSets] :
                           \A k \in 1..(DeepTrans - 1) : TransKey(d[k]) <= TransKey(d[k + 1])}}
  /\ min_supp \in 1..DeepSupp
  /\ enum_clos = 1
  /\ lb = [pc |-> "idle"]
  /\ sv = [i \in {0} |-> NewSolver(0, 1, 0)]
SpecDeep == InitDeep /\ [][Next]_vars

\* ------------------------------------------------- small restart windows
\* One worker whose option "rfirst" is 1..MaxRestartFirst, so that the
\* first window of search is that many conflicts.
MaxRestartFirst == 2
InitRst ==
  /\ db \in {d \in DataBases : Len(d) <= ParMaxTrans}
  /\ min_supp \in 1..MaxSupp
  /\ enum_clos \in {0, 1}
  /\ lb = [pc |-> "idle"]
  /\ \E rf \in 1..MaxRestartFirst :
       sv = [i \in {0} |-> [NewSolver(0, 1, 0) EXCEPT !.restart_first = rf]]
SpecRst == InitRst /\ [][Next]_vars

\* A call of luby on its own.
LubyCall ==
  /\ lb.pc = "call"
  /\ lb' = [lb EXCEPT !.pc = "ret", !.out = luby(lb.y, lb.x)]
  /\ UNCHANGED <<db, min_supp, enum_clos, sv>>
RestartIncs == {2, 3}
InitLuby ==
  /\ db = <<>>
  /\ min_supp = 0
  /\ enum_clos = 0
  /\ sv = <<>>
  /\ lb \in [pc : {"call"}, y : RestartIncs, x : 0..MaxLubyX, out : {0}]
SpecLuby == InitLuby /\ [][LubyCall]_vars

\* Each worker is a thread that keeps running until solve_ has returned:
\* weak fairness of Next.  A step of Next is possible exactly when some
\* worker has not returned, so WF_vars(Next) is written with ~AllDone for
\* ENABLED <<Next>>_vars.
FairSpec == Spec /\ ([]<>AllDone \/ []<><<Next>>_vars)

\* ================================================================ claims
Count(q, S) == Cardinality({k \in 1..Len(q) : q[k] = S})
Last(q) == q[Len(q)]
\* The indices t, t+N, t+2N, ... below |allItems|, in increasing order.
StrideSeq(t, N) ==
  [k \in 1..Cardinality({a \in 0..(Len(allItems) - 1) : a >= t /\ (a - t) % N = 0})
     |-> t + (k - 1) * N]
\* The reifier variables: those beyond the items and the transactions.
Reifiers(s) == {v \in VarIds : v >= nbItems + nbTrans}
Searching(s) == s.pc \in {"prop", "post", "div", "ret"}

\* C1 (soundness): every itemset recorded as a model has an aggregate
\* weight, over the transactions that contain all its items, of at least
\* min_supp; for every database, threshold and number of workers.
T_C1 ==
  \A i \in DOMAIN sv : \A k \in 1..Len(sv[i].emitted) :
    AggregateWeight(sv[i].emitted[k]) >= min_supp
W_C1 ==
  \E i \in DOMAIN sv :
    /\ sv[i].nbModels >= 2
    /\ sv[i].nbThreads = 2
    /\ min_supp >= 3
    /\ \E S \in ItemSets : 0 < AggregateWeight(S) /\ AggregateWeight(S) < min_supp

T_C3 ==
  enum_clos = 1 =>
    \A i \in DOMAIN sv : \A k, l \in 1..Len(sv[i].emitted) :
      ~(/\ sv[i].emitted[k] \subseteq sv[i].emitted[l]
        /\ sv[i].emitted[k] # sv[i].emitted[l]
        /\ Cover(sv[i].emitted[k]) = Cover(sv[i].emitted[l]))
W_C3 ==
  /\ enum_clos = 1
  /\ \E i \in DOMAIN sv :
       /\ Len(sv[i].emitted) >= 2
       /\ \E S \in ItemSets :
            /\ ~Closed(S) /\ AggregateWeight(S) >= min_supp /\ min_supp >= 1
            /\ \E k \in 1..Len(sv[i].emitted) :
                 S \subseteq sv[i].emitted[k] /\ Cover(S) = Cover(sv[i].emitted[k])

\* C4 (worker-count independence): when all runs have returned, the
\* itemsets emitted by the NbThreads workers together are, as a multiset,
\* those emitted by the single worker on the same input.
T_C4 ==
  AllDone =>
    \A S \in ItemSets :
      Count(sv[0].emitted, S)
        = SumFn([i \in ParWorkers |-> Count(sv[i].emitted, S)], ParWorkers)
W_C4 ==
  /\ AllDone
  /\ Len(sv[0].emitted) >= 3
  /\ \A i \in ParWorkers : sv[i].emitted # <<>>

\* C5 (stride partitioning): worker t of N hands to encodeGuidingPath the
\* indices t, t+N, t+2N, ... below |allItems|, in increasing order and each
\* once; when all workers have returned every index 0..|allItems|-1 was
\* attempted by exactly one worker, exactly once.
T_C5 ==
  /\ \A i \in ParWorkers :
       LET st == StrideSeq(sv[i].threadId, sv[i].nbThreads)
       IN /\ Len(sv[i].attempts) <= Len(st)
          /\ sv[i].attempts = SubSeq(st, 1, Len(sv[i].attempts))
          /\ sv[i].pc = "done" => sv[i].attempts = st
  /\ \A i, j \in ParWorkers :
       i # j => Range(sv[i].attempts) \cap Range(sv[j].attempts) = {}
  /\ (\A i \in ParWorkers : sv[i].pc = "done") =>
       \A a \in 0..(Len(allItems) - 1) :
         SumFn([i \in ParWorkers |-> Count(sv[i].attempts, a)], ParWorkers) = 1
W_C5 ==
  /\ \A i \in ParWorkers : sv[i].pc = "done" /\ sv[i].attempts # <<>>
  /\ \E i \in ParWorkers : Len(sv[i].attempts) >= 2 /\ sv[i].emitted # <<>>

\* C6 (weight invariant), as stated: once the first guiding path is
\* encoded, totalWeight is the sum of hu_wei over all the reifier variables
\* whose assignment is not false.
X_C6 ==
  \A i \in DOMAIN sv :
    Searching(sv[i]) =>
      sv[i].totalWeight
        = SumFn(sv[i].hu_wei, {v \in Reifiers(sv[i]) : sv[i].assigns[v] # l_False})
\* C6 amended: the sum ranges over the reifier variables of the latest
\* encoded guiding path.
T_C6 ==
  \A i \in DOMAIN sv :
    Searching(sv[i]) =>
      sv[i].totalWeight
        = SumFn(sv[i].hu_wei, {v \in Reifiers(sv[i]) :
                                 v < sv[i].enc_vars /\ sv[i].assigns[v] # l_False})
W_C6 ==
  \E i \in DOMAIN sv :
    /\ sv[i].pc = "post"
    /\ Len(sv[i].attempts) >= 2
    /\ sv[i].totalWeight > 0
    /\ \E v \in Reifiers(sv[i]) : v < sv[i].enc_vars /\ sv[i].assigns[v] = l_False
    /\ \E v \in Reifiers(sv[i]) : v >= sv[i].enc_vars /\ v < sv[i].nVars

\* C7 (two-watched invariant), for the returns of propagate without
\* conflict: every attached clause that is neither satisfied nor unit has
\* its two watched literals both unassigned, or one of them true.
X_C7 == \A i \in DOMAIN sv : ~sv[i].watchBroken

\* The canonical Luby sequence 1,1,2,1,1,2,4,... (i counted from 1): term
\* 2^k - 1 is 2^(k-1); a term between repeats the sequence from its start.
LubyBlock(i) == CHOOSE k \in 1..(i + 1) : 2^k - 1 >= i /\ \A j \in 1..(k - 1) : 2^j - 1 < i
RECURSIVE CanonLuby(_)
CanonLuby(i) ==
  LET k == LubyBlock(i)
  IN IF i = 2^k - 1 THEN 2^(k - 1) ELSE CanonLuby(i - 2^(k - 1) + 1)
Log2(n) == CHOOSE e \in 0..n : 2^e = n
T_C9 ==
  /\ <>AllDone
  /\ [][\A i \in DOMAIN sv :
          (sv[i].pc = "div" /\ sv'[i] # sv[i]) =>
             \/ /\ sv'[i].diviser_state = 1
                /\ sv'[i].pc = "prop"
                /\ Last(sv'[i].attempts) > Last(sv[i].attempts)
             \/ /\ sv'[i].pc = "ret"
                /\ sv'[i].status = l_False
                /\ sv'[i].ind >= Len(allItems)]_vars
W_C9 ==
  \E i \in DOMAIN sv :
    /\ sv[i].pc = "done" /\ sv[i].status = l_False
    /\ Len(sv[i].attempts) >= 2 /\ sv[i].nbModels >= 2

\* C10 (cancellation): a worker whose asynch_interrupt was set while it
\* was searching returns l_Undef from solve_.
X_C10 ==
  \A i \in DOMAIN sv :
    (sv[i].pc = "done" /\ sv[i].asynch_interrupt) => sv[i].status = l_Undef
\* C11 (restart pacing): once nof_conflicts conflicts have occurred within a
\* call of search, the next step search takes on a propagation without
\* conflict is the return of l_Undef.
X_C11 ==
  [][\A i \in DOMAIN sv :
       (/\ sv[i].pc = "post"
        /\ ~HasConflict(sv[i])
        /\ sv[i].conflictC >= sv[i].nof_conflicts
        /\ sv'[i] # sv[i])
       => (sv'[i].pc = "ret" /\ sv'[i].status = l_Undef)]_vars

\* C13 as stated (unsatisfiable at root is permanent): once ok is false it
\* stays false and the worker emits no further model.
X_C13 ==
  [][\A i \in DOMAIN sv :
       ~sv[i].ok => (~sv'[i].ok /\ sv'[i].emitted = sv[i].emitted)]_vars

\* C13 amended: while ok is false the worker emits no model and ok stays
\* false until search reaches div_section; there ok is set again when an
\* index of the stride is left, else search returns l_False; and solve_
\* always returns l_False, with ok false when search was entered.
T_C13 ==
  /\ [][\A i \in DOMAIN sv :
          ~sv[i].ok =>
            /\ sv'[i].emitted = sv[i].emitted
            /\ sv[i].pc # "div" => ~sv'[i].ok
            /\ (sv[i].pc = "div" /\ sv[i].ind >= Len(allItems))
                 => (~sv'[i].ok /\ sv'[i].pc = "ret" /\ sv'[i].status = l_False)]_vars
  /\ [](\A i \in DOMAIN sv :
          sv[i].pc = "done" => /\ sv[i].status = l_False
                               /\ sv[i].nof_conflicts > 0 => ~sv[i].ok)
\* A top-level contradiction of one guiding path has brought search to
\* div_section while an index of the stride is left and a model was emitted.
W_C13 ==
  \E i \in DOMAIN sv :
     /\ sv[i].pc = "div" /\ ~sv[i].ok
     /\ sv[i].ind < Len(allItems)
     /\ sv[i].emitted # <<>>

\* The qualifying itemsets of the guiding paths of worker t of N: those
\* whose least item has an index congruent to t modulo N.
StrideQualifying(t, N) ==
  {S \in Qualifying : S # {} /\ (CHOOSE m \in S : \A x \in S : m <= x) % N = t}
SetOf(q) == {q[k] : k \in 1..Len(q)}

\* C12 (non-interference of imports): whatever units are exported and
\* imported, a worker that has returned has emitted exactly the itemsets
\* it emits with an empty inbox, the qualifying itemsets of its stride.
X_C12 ==
  \A i \in DOMAIN sv :
     sv[i].pc = "done" =>
       SetOf(sv[i].emitted) = StrideQualifying(sv[i].threadId, sv[i].nbThreads)

\* The state of a worker that C14 calls private.
Private(s) == <<s.trail, s.assigns, s.watches, s.clauses, s.ca>>
\* C14 (worker-state privacy): no step changes the trail, assignments,
\* watch lists, clause list or arena of two workers at once, a step being
\* one operation run by one worker.
X_C14 ==
  [][\A i \in DOMAIN sv : \A j \in DOMAIN sv :
       i # j => (Private(sv'[i]) = Private(sv[i]) \/ Private(sv'[j]) = Private(sv[j]))]_vars

\* The database {A,B}, {A,C}, {B,C} in which every item weighs 1.
TriangleDB == DataBase(<<{0, 1}, {0, 2}, {1, 2}>>, NbItems)
\* A run of one worker on TriangleDB in frequent mode with min_supp = 2
\* has returned.
TriangleDone(i) ==
  /\ db = TriangleDB /\ min_supp = 2 /\ enum_clos = 0
  /\ sv[i].nbThreads = 1 /\ sv[i].pc = "done"
Identical == Len(db) >= 1 /\ \A k \in 1..Len(db) : db[k] = db[1]
T == db[1].items
\* The workers of the run with NbThreads workers have all returned.
RunDone == \A i \in ParWorkers : sv[i].pc = "done"
\* Exactly one itemset, S, is emitted over the run of the workers ws.
OnlyEmitted(ws, S) ==
  \E i \in ws : sv[i].emitted = <<S>> /\ \A j \in ws \ {i} : sv[j].emitted = <<>>
TopLevel(s) == (s.trail_lim[Len(s.trail_lim)] + 1)..Len(s.trail)
\* C18 (chronological flip): a conflict reported by propagate at level
\* d > 0 is answered by one step to level d-1 that undoes the assignments
\* of level d, keeps those of the lower levels, puts the negated decision
\* of level d on the trail at level d-1 and leaves the clause database as
\* it was; a conflict at level 0 switches to UNDIVIDED.
T_C18 ==
  [][\A i \in DOMAIN sv :
       (sv[i].pc = "post" /\ sv[i].confl # CRef_Undef /\ sv'[i] # sv[i]) =>
          IF decisionLevel(sv[i]) > 0
          THEN LET s == sv[i]
                   t == sv'[i]
                   d == decisionLevel(s)
                   base == s.trail_lim[d]
                   q == s.trail[base + 1]
               IN /\ decisionLevel(t) = d - 1
                  /\ t.trail_lim = SubSeq(s.trail_lim, 1, d - 1)
                  /\ t.trail = Append(SubSeq(s.trail, 1, base), Neg(q))
                  /\ \A k \in TopLevel(s) :
                        var(s.trail[k]) # var(q) => t.assigns[var(s.trail[k])] = l_Undef
                  /\ \A k \in 1..base :
                        t.assigns[var(s.trail[k])] = s.assigns[var(s.trail[k])]
                  /\ value(t, Neg(q)) = l_True
                  /\ t.vardata[var(q)] = [reason |-> CRef_Undef, level |-> d - 1]
                  /\ t.clauses = s.clauses /\ t.ca = s.ca /\ t.watches = s.watches
                  /\ t.pc = "prop"
          ELSE sv'[i].pc = "div" /\ sv'[i].diviser_state = 0]_vars
W_C18 ==
  \E i \in DOMAIN sv :
     /\ sv[i].pc = "prop" /\ sv[i].confl # CRef_Undef
     /\ decisionLevel(sv[i]) >= 1
     /\ sv[i].qhead = Len(sv[i].trail) - 1
     /\ sign(sv[i].trail[Len(sv[i].trail)]) = 1

\* The entries of the latest call of propagate for watchers whose clause
\* has no non-false literal among c[2..] and whose c[0] is not true.
UnitCases(s) == {k \in 1..Len(s.plog) : s.plog[k].kind # "deq"}
\* C19 (weighted conflict rule of propagate): for a watcher whose clause
\* has no non-false literal among c[2..] and whose c[0] is not true,
\* propagate reports the clause as the conflict iff totalWeight < min_supp
\* or c[0] is false, and otherwise enqueues c[0] with the clause as reason
\* (read on the return of the propagate of search).
X_C19 ==
  \A i \in DOMAIN sv :
     sv[i].pc = "post" =>
       \A k \in UnitCases(sv[i]) :
          LET e == sv[i].plog[k]
          IN /\ e.kind = "confl" <=> (e.low \/ e.ffalse)
             /\ e.kind # "confl" =>
                  /\ e.kind = "unit"
                  /\ value(sv[i], e.lit) = l_True
                  /\ sv[i].vardata[var(e.lit)].reason = e.cref

IsDeq(e) == e.kind = "deq"
\* The literals the latest call of propagate dequeued, in order.
Dequeued(s) == LET d == SelectSeq(s.plog, IsDeq) IN [k \in 1..Len(d) |-> d[k].lit]
\* C20 (the propagation queue is empty after propagate): the propagate of
\* search returns with qhead = trail.size(), with or without conflict; the
\* literals it dequeued are the trail from the old qhead on, in trail
\* order, all of it when there is no conflict; a conflict is the last thing
\* the call does, no literal is dequeued after it.
T_C20 ==
  [][\A i \in DOMAIN sv :
       (sv[i].pc = "prop" /\ sv'[i].pc = "post") =>
          LET s == sv[i]
              t == sv'[i]
              n == Len(Dequeued(t))
          IN /\ t.qhead = Len(t.trail)
             /\ s.qhead + n <= Len(t.trail)
             /\ Dequeued(t) = SubSeq(t.trail, s.qhead + 1, s.qhead + n)
             /\ t.confl = CRef_Undef => s.qhead + n = Len(t.trail)
             /\ \A k \in 1..Len(t.plog) : t.plog[k].kind = "confl" => k = Len(t.plog)
             /\ t.confl # CRef_Undef =>
                  /\ t.plog # <<>>
                  /\ t.plog[Len(t.plog)].kind = "confl"
                  /\ t.plog[Len(t.plog)].cref = t.confl]_vars
W_C20 ==
  \E i \in DOMAIN sv :
     /\ sv[i].pc = "post" /\ sv[i].confl # CRef_Undef
     /\ sv[i].qhead = Len(sv[i].trail)
     /\ Len(Dequeued(sv[i])) >= 2
     /\ Dequeued(sv[i])[Len(Dequeued(sv[i]))] # sv[i].trail[Len(sv[i].trail)]

\* C21 (no branching below the threshold): in DIVIDED, a step of search
\* that opens a decision level or records a model starts from a state with
\* totalWeight >= min_supp; a state without conflict and with
\* totalWeight < min_supp is left by a one-level flip at level > 0 and by
\* the switch to UNDIVIDED at level 0.
T_C21 ==
  [][\A i \in DOMAIN sv :
       LET s == sv[i]
           t == sv'[i]
       IN (s.pc = "post" /\ s.diviser_state # 0 /\ t # s) =>
            /\ (decisionLevel(t) > decisionLevel(s) \/ t.nbModels > s.nbModels) =>
                  s.totalWeight >= min_supp
            /\ (~HasConflict(s) /\ s.totalWeight < min_supp) =>
                  IF decisionLevel(s) > 0
                  THEN /\ decisionLevel(t) = decisionLevel(s) - 1
                       /\ t.trail = Append(SubSeq(s.trail, 1, s.trail_lim[Len(s.trail_lim)]),
                                            Neg(s.trail[s.trail_lim[Len(s.trail_lim)] + 1]))
                       /\ t.pc = "prop" /\ t.emitted = s.emitted
                  ELSE t.pc = "div" /\ t.diviser_state = 0 /\ t.emitted = s.emitted]_vars
W_C21 ==
  \E i \in DOMAIN sv :
     /\ sv[i].pc = "post" /\ ~HasConflict(sv[i]) /\ sv[i].diviser_state # 0
     /\ sv[i].totalWeight < min_supp
     /\ decisionLevel(sv[i]) >= 2
     /\ BranchCandidates(sv[i]) = {}

\* The index k (1-based) of the guiding path worker s is in: the last one
\* handed to encodeGuidingPath.
CurrentIndex(s) == Last(s.attempts) + 1
\* Worker s is searching under its guiding path (DIVIDED).
UnderPath(s) == s.pc \in {"prop", "post"} /\ s.diviser_state = 1
\* Literal p is true and was assigned at level 0.
TrueAtRoot(s, p) == value(s, p) = l_True /\ s.vardata[var(p)].level = 0
\* C22 (the guiding-path prefix is fixed): while a worker searches under
\* the guiding path of index k, allItems[k-1] is true and allItems[0..k-2]
\* are false, all at level 0; every itemset recorded there contains
\* allItems[k-1] and none of allItems[0..k-2].
T_C22 ==
  /\ [](\A i \in DOMAIN sv :
          UnderPath(sv[i]) =>
            /\ TrueAtRoot(sv[i], allItems[CurrentIndex(sv[i])])
            /\ \A j \in 1..(CurrentIndex(sv[i]) - 1) : TrueAtRoot(sv[i], Neg(allItems[j])))
  /\ [][\A i \in DOMAIN sv :
          Len(sv'[i].emitted) > Len(sv[i].emitted) =>
            /\ sv'[i].emitted = Append(sv[i].emitted, Last(sv'[i].emitted))
            /\ var(allItems[CurrentIndex(sv[i])]) \in Last(sv'[i].emitted)
            /\ \A j \in 1..(CurrentIndex(sv[i]) - 1) :
                  var(allItems[j]) \notin Last(sv'[i].emitted)]_vars
W_C22 ==
  \E i \in DOMAIN sv :
     /\ UnderPath(sv[i]) /\ CurrentIndex(sv[i]) >= 2
     /\ TrueAtRoot(sv[i], Neg(allItems[1]))
     /\ sv[i].emitted # <<>> /\ Last(sv[i].emitted) \cap {var(allItems[1])} = {}
     /\ Cardinality(Last(sv[i].emitted)) >= 2

\* The items of the projected database of the current guiding path whose
\* occ, as tallied by the encoder, is below min_supp.
RareItems(s) ==
  {var(s.items[k]) : k \in {j \in 1..Len(s.items) : s.enc_occ[var(s.items[j])] < min_supp}}
\* C23 (item pruning): while a worker searches under a guiding path, no
\* item of the projected database with occ < min_supp is undefined; each of
\* them other than the item of the path is false at level 0 and is not in
\* the decision heap, and no itemset recorded under the path contains it.
T_C23 ==
  /\ [](\A i \in DOMAIN sv :
          UnderPath(sv[i]) =>
            \A r \in RareItems(sv[i]) :
               /\ sv[i].assigns[r] # l_Undef
               /\ r # var(allItems[CurrentIndex(sv[i])]) =>
                    /\ TrueAtRoot(sv[i], mkLit(r, 1))
                    /\ r \notin sv[i].order_heap)
  /\ [][\A i \in DOMAIN sv :
          Len(sv'[i].emitted) > Len(sv[i].emitted) =>
            Last(sv'[i].emitted) \cap RareItems(sv[i])
              \subseteq {var(allItems[CurrentIndex(sv[i])])}]_vars
W_C23 ==
  \E i \in DOMAIN sv :
     /\ UnderPath(sv[i]) /\ sv[i].ok
     /\ \E r \in RareItems(sv[i]) :
          /\ r # var(allItems[CurrentIndex(sv[i])])
          /\ sv[i].enc_occ[r] > 0
     /\ sv[i].nbModels > 0 /\ sv[i].order_heap # {}

\* The transactions (0-based ids) of the projected database of the guiding
\* path worker s is in.
ProjectedDB(s) == appearTrans(var(allItems[CurrentIndex(s)]))
\* Some support clause is due under the current path: a transaction of the
\* projected database and an item outside it that is not false at level 0.
SupportDue(s) ==
  \E k \in 1..Len(ProjectedDB(s)) : \E j \in 1..Len(s.items) :
     /\ var(s.items[j]) \notin db[ProjectedDB(s)[k] + 1].items
     /\ ~TrueAtRoot(s, Neg(s.items[j]))
\* C24 (threshold gate of the encoder): under a guiding path, when
\* totalWeight was below min_supp after item pruning the clause list is
\* the one the encoder had at that point (no support or closure clause was
\* added) and no itemset is recorded; when it was at least min_supp the
\* support clauses that are due have been added.
T_C24 ==
  /\ [](\A i \in DOMAIN sv :
          UnderPath(sv[i]) =>
            /\ sv[i].gate.weight < min_supp => Len(sv[i].clauses) = sv[i].gate.clauses
            /\ (sv[i].gate.weight >= min_supp /\ SupportDue(sv[i])) =>
                  Len(sv[i].clauses) > sv[i].gate.clauses)
  /\ [][\A i \in DOMAIN sv :
          Len(sv'[i].emitted) > Len(sv[i].emitted) => sv[i].gate.weight >= min_supp]_vars
W_C24 ==
  \E i \in DOMAIN sv :
     /\ UnderPath(sv[i]) /\ sv[i].pc = "post"
     /\ sv[i].gate.weight < min_supp /\ sv[i].gate.weight > 0
     /\ sv[i].gate.clauses >= 2 /\ Len(ProjectedDB(sv[i])) >= 2
     /\ enum_clos = 1

\* pickBranchLit is about to return lit_Undef: the next step of worker s
\* records a model.
ModelFound(s) ==
  /\ s.pc = "post" /\ ~HasConflict(s) /\ s.diviser_state # 0
  /\ ~(s.totalWeight < min_supp) /\ BranchCandidates(s) = {}
\* The transaction variable of transaction t (0-based id).
TransLit(t) == mkLit(t + nbItems, 0)
ProjectedSet(s) == {ProjectedDB(s)[k] : k \in 1..Len(ProjectedDB(s))}
\* The items of transaction t that were not false when the current prefix
\* was encoded: those outside the prefix that item pruning left alone.
Remaining(s, t) ==
  db[t + 1].items \ ({var(allItems[j]) : j \in 1..(CurrentIndex(s) - 1)}
                      \cup (RareItems(s) \ {var(allItems[CurrentIndex(s)])}))
\* C25 as stated (support clauses define the transaction variable): in
\* every model found under a prefix, q_t of each transaction t of D_p is
\* true iff all remaining items of t are true.
X_C25 ==
  \A i \in DOMAIN sv :
     ModelFound(sv[i]) =>
       \A t \in ProjectedSet(sv[i]) :
          value(sv[i], TransLit(t)) = l_True
            <=> \A r \in Remaining(sv[i], t) : sv[i].assigns[r] = l_True
\* C25 amended: in every model found under a prefix, q_t of each
\* transaction t of D_p is false iff some item outside t is true, that is
\* iff t does not contain the itemset of the model; q_t true implies that t
\* contains the itemset.
T_C25 ==
  \A i \in DOMAIN sv :
     ModelFound(sv[i]) =>
       \A t \in ProjectedSet(sv[i]) :
          /\ value(sv[i], TransLit(t)) = l_False
               <=> \E r \in ItemsetOf(sv[i]) : r \notin db[t + 1].items
          /\ value(sv[i], TransLit(t)) = l_True
               => ItemsetOf(sv[i]) \subseteq db[t + 1].items
W_C25 ==
  \E i \in DOMAIN sv :
     /\ ModelFound(sv[i])
     /\ \E t \in ProjectedSet(sv[i]) : value(sv[i], TransLit(t)) = l_False
     /\ \E t \in ProjectedSet(sv[i]) : value(sv[i], TransLit(t)) = l_Undef
     /\ Cardinality(ItemsetOf(sv[i])) >= 2

\* The decision literals of s: the first literal of every decision level.
Decisions(s) == {s.trail[s.trail_lim[k] + 1] : k \in 1..Len(s.trail_lim)}
\* C26 (only positive item decisions): every decision on the trail is the
\* positive literal of an item variable; when pickBranchLit runs the
\* decision heap holds item variables only; a transaction or reifier
\* variable assigned above level 0 has a reason clause.
T_C26 ==
  \A i \in DOMAIN sv :
     /\ \A p \in Decisions(sv[i]) :
          /\ sign(p) = 0 /\ var(p) \in Items
          /\ sv[i].vardata[var(p)].reason = CRef_Undef
     /\ (UnderPath(sv[i]) /\ sv[i].pc = "post") => sv[i].order_heap \subseteq Items
     /\ \A k \in 1..Len(sv[i].trail) :
          (var(sv[i].trail[k]) >= nbItems /\ sv[i].vardata[var(sv[i].trail[k])].level > 0) =>
             sv[i].vardata[var(sv[i].trail[k])].reason # CRef_Undef
W_C26 ==
  \E i \in DOMAIN sv :
     /\ decisionLevel(sv[i]) >= 2 /\ sv[i].pc = "post"
     /\ \E k \in 1..Len(sv[i].trail) :
          /\ var(sv[i].trail[k]) >= nbItems + nbTrans
          /\ sv[i].vardata[var(sv[i].trail[k])].level = 2
     /\ \E k \in 1..Len(sv[i].trail) :
          /\ var(sv[i].trail[k]) \in nbItems..(nbItems + nbTrans - 1)
          /\ sv[i].vardata[var(sv[i].trail[k])].level >= 1

\* The items of the projected database of the current path that are
\* undefined, and the number of its transactions that hold item v.
UndefItems(s) ==
  {v \in UNION {db[t + 1].items : t \in ProjectedSet(s)} : s.assigns[v] = l_Undef}
OccIn(s, v) == Cardinality({t \in ProjectedSet(s) : v \in db[t + 1].items})
\* pickBranchLit is about to run in worker s.
PickPoint(s) ==
  /\ s.pc = "post" /\ ~HasConflict(s) /\ s.diviser_state # 0
  /\ ~(s.totalWeight < min_supp)
\* C27 (rarest item first): where pickBranchLit runs, the step taken
\* records a model iff no item of D_p is undefined, and otherwise decides
\* an undefined item of D_p whose number of occurrences in D_p is minimal
\* among the undefined ones; under a guiding path the activity of an
\* undefined item of D_p is |D_p| minus its occurrence count and no step
\* of search changes an activity.
T_C27 ==
  /\ [](\A i \in DOMAIN sv :
          UnderPath(sv[i]) =>
            \A v \in UndefItems(sv[i]) :
               sv[i].activity[v] = Len(ProjectedDB(sv[i])) - OccIn(sv[i], v))
  /\ [][\A i \in DOMAIN sv :
          LET s == sv[i]
              t == sv'[i]
          IN /\ (PickPoint(s) /\ t # s) =>
                  /\ t.nbModels > s.nbModels <=> UndefItems(s) = {}
                  /\ UndefItems(s) # {} =>
                       /\ t.trail = Append(s.trail, mkLit(var(t.trail[Len(t.trail)]), 0))
                       /\ t.trail_lim = Append(s.trail_lim, Len(s.trail))
                       /\ var(t.trail[Len(t.trail)]) \in UndefItems(s)
                       /\ \A u \in UndefItems(s) :
                             OccIn(s, var(t.trail[Len(t.trail)])) <= OccIn(s, u)
             /\ (UnderPath(s) /\ UnderPath(t)) => t.activity = s.activity]_vars
W_C27 ==
  \E i \in DOMAIN sv :
     /\ UnderPath(sv[i]) /\ sv[i].pc = "prop" /\ decisionLevel(sv[i]) = 1
     /\ sv[i].qhead = Len(sv[i].trail) - 1
     /\ sign(sv[i].trail[Len(sv[i].trail)]) = 0
     /\ \E u \in UndefItems(sv[i]) :
          OccIn(sv[i], var(sv[i].trail[Len(sv[i].trail)])) < OccIn(sv[i], u)

\* What C28 says an aborted encodeGuidingPath leaves alone: r is the state
\* after, s the state before.
SameSolver(r, s) ==
  /\ r.trail = s.trail /\ r.trail_lim = s.trail_lim /\ r.qhead = s.qhead
  /\ r.assigns = s.assigns /\ r.vardata = s.vardata
  /\ r.clauses = s.clauses /\ r.ca = s.ca /\ r.watches = s.watches
  /\ r.nVars = s.nVars /\ r.hu_wei = s.hu_wei /\ r.totalWeight = s.totalWeight
  /\ r.order_heap = s.order_heap /\ r.activity = s.activity /\ r.ok = s.ok
\* The state in which worker s is about to call encodeGuidingPath: at the
\* head of solve_, or in div_section after "ok = true; reduceDB();".
BeforeEncode(s) == IF s.pc = "div" THEN reduceDB([s EXCEPT !.ok = TRUE]) ELSE s
\* The indices k whose item has a total weight below min_supp.
Aborting == {k \in 1..Len(allItems) : wocc(var(allItems[k])) < min_supp}
\* C28 (an aborted encoding changes nothing): wherever encodeGuidingPath is
\* called, for an index k whose item weighs less than min_supp it leaves
\* the trail, the assignments, the clause database, the variables,
\* totalWeight and the decision heap as they were; a call of solve_ all of
\* whose encodings abort returns l_False with the solver unchanged.
T_C28 ==
  /\ [](\A i \in DOMAIN sv :
          sv[i].pc \in {"solve", "div"} =>
            \A k \in Aborting :
               SameSolver(encodeGuidingPath(BeforeEncode(sv[i]), k), BeforeEncode(sv[i])))
  /\ [][\A i \in DOMAIN sv :
          (sv[i].pc = "solve" /\ sv'[i].pc = "done" /\ sv[i].ok) =>
             /\ SameSolver(sv'[i], sv[i])
             /\ sv'[i].status = l_False
             /\ \A k \in 1..Len(sv'[i].attempts) : sv'[i].attempts[k] + 1 \in Aborting]_vars
W_C28 ==
  \E i \in DOMAIN sv :
     /\ sv[i].pc = "div" /\ sv[i].emitted # <<>>
     /\ sv[i].ind < Len(allItems) /\ sv[i].ind + 1 \in Aborting
     /\ \E k \in (sv[i].ind + 2)..Len(allItems) :
          k \notin Aborting /\ (k - 1 - sv[i].ind) % sv[i].nbThreads = 0

\* Worker i calls exportClause at level 0 in this step: the number of trail
\* literals given to the hub changes while the trail stays.
ExportStep(i) ==
  /\ sv[i].pc \in {"prop", "post"} /\ decisionLevel(sv[i]) = 0
  /\ sv'[i].trail = sv[i].trail /\ sv'[i].handed # sv[i].handed
\* The literals enqueued on the trail of s since the previous export.
NewUnits(s) == SubSeq(s.trail, s.handed + 1, Len(s.trail))
\* C29 (unit export): a call of exportClause at decision level 0 appends
\* every literal enqueued on the trail since the previous export to the
\* inbox of every other worker, each once, and leaves tailUnitLit equal to
\* trail.size(), also after a change of guiding path has emptied the trail.
X_C29 ==
  [][\A i \in DOMAIN sv :
       ExportStep(i) =>
         /\ sv'[i].tailUnitLit = Len(sv[i].trail)
         /\ \A j \in DOMAIN sv \ {i} :
              sv'[j].extraUnits = sv[j].extraUnits \o NewUnits(sv[i])]_vars

\* The places where the workers ws have recorded the itemset S; a sequence
\* with a repetition has one among its first |ItemSets| + 1 entries.
Recorded(ws, S) ==
  {p \in ws \X (1..(Cardinality(ItemSets) + 1)) :
     p[2] <= Len(sv[p[1]].emitted) /\ sv[p[1]].emitted[p[2]] = S}
\* C30 (no itemset is emitted twice): in the run of one worker and in the
\* run of NbThreads workers no itemset is recorded more than once, under
\* one guiding path or under two, by one worker or by two.
T_C30 ==
  \A S \in ItemSets :
     Cardinality(Recorded({0}, S)) <= 1 /\ Cardinality(Recorded(ParWorkers, S)) <= 1
W_C30 ==
  /\ \A i \in DOMAIN sv : sv[i].pc = "done"
  /\ \E i \in ParWorkers : \E j \in ParWorkers :
       i # j /\ sv[i].emitted # <<>> /\ Len(sv[j].emitted) >= 2
  /\ \E i \in ParWorkers : Len(sv[i].attempts) >= 2

\* The solver holds no assignment and no clause: what C31 requires where
\* encodeGuidingPath is called from div_section.
CleanSolver(b) ==
  /\ b.trail = <<>> /\ decisionLevel(b) = 0 /\ b.qhead = 0
  /\ \A v \in VarIds : b.assigns[v] = l_Undef
  /\ b.ok /\ b.clauses = <<>>
  /\ \A k \in 1..Len(b.ca) : b.ca[k].mark = 1
\* C31 (clean state between prefixes): where search, having left a guiding
\* path, is about to call encodeGuidingPath (after "ok = true;
\* reduceDB();"), the trail is empty, the decision level and qhead are 0,
\* every variable is undefined, ok is true, the clause list is empty and
\* every clause of the arena is deleted; a worker enters div_section only
\* with diviser_state = 0.
T_C31 ==
  \A i \in DOMAIN sv :
     /\ sv[i].pc = "div" => sv[i].diviser_state = 0
     /\ (sv[i].pc = "div" /\ sv[i].ind < Len(allItems)) => CleanSolver(BeforeEncode(sv[i]))
     /\ (sv[i].pc = "post" /\ ~HasConflict(sv[i])) => sv[i].diviser_state # 0
W_C31 ==
  \E i \in DOMAIN sv :
     /\ sv[i].pc = "div" /\ sv[i].ind < Len(allItems)
     /\ sv[i].clauses # <<>> /\ sv[i].emitted # <<>>
     /\ encodeReturns(sv[i].ind + 1)

\* The weights of the items of transaction num that the guiding path of
\* index k leaves non-false (the items from allItems[k-1] on), in the order
\* of the transaction.
PairWeights(num, k) ==
  LET open == SetToSeq({j \in 1..Len(list_transactions(num)) :
                         var(list_transactions(num)[j]) >= var(allItems[k])})
  IN [n \in 1..Len(open) |-> wItemTrans(num)[open[n]]]
\* The weights of the reifiers of the encoding of index k, in the order of
\* their creation: one per transaction of D_p and non-false item of it.
RECURSIVE ReifierWeights(_, _, _)
ReifierWeights(tids, i, k) ==
  IF i > Len(tids) THEN <<>>
  ELSE PairWeights(tids[i], k) \o ReifierWeights(tids, i + 1, k)
\* Solver s has the reifiers of weights w, and totalWeight is the weight of
\* those that are not false.
WeighsReifiers(s, w) ==
  /\ s.enc_vars = nbItems + nbTrans + Len(w)
  /\ \A n \in 1..Len(w) : s.hu_wei[nbItems + nbTrans + n - 1] = w[n]
  /\ s.totalWeight
       = SumSeq([n \in 1..Len(w) |->
                  IF s.assigns[nbItems + nbTrans + n - 1] # l_False THEN w[n] ELSE 0])
\* The weight of the reifiers of s that are false in s and not in t.
GivenBack(s, t) ==
  SumFn(s.hu_wei, {v \in Reifiers(s) : v < s.enc_vars /\ s.assigns[v] = l_False
                                        /\ t.assigns[v] # l_False})
\* C32 (weight of the current encoding): while a worker searches under the
\* guiding path of index k, totalWeight is the sum, over the pairs of a
\* transaction of D_p and an item of it that the path leaves non-false, of
\* the item's weight in the transaction when the reifier of the pair is not
\* false; a backtrack under the path gives totalWeight back exactly the
\* weight of the reifiers it frees.
T_C32 ==
  /\ [](\A i \in DOMAIN sv :
          UnderPath(sv[i]) =>
            WeighsReifiers(sv[i],
                           ReifierWeights(appearTrans(var(allItems[CurrentIndex(sv[i])])),
                                          1, CurrentIndex(sv[i]))))
  /\ [][\A i \in DOMAIN sv :
          (UnderPath(sv[i]) /\ UnderPath(sv'[i])
             /\ decisionLevel(sv'[i]) < decisionLevel(sv[i])) =>
            sv'[i].totalWeight = sv[i].totalWeight + GivenBack(sv[i], sv'[i])]_vars
W_C32 ==
  \E i \in DOMAIN sv :
     /\ UnderPath(sv[i]) /\ sv[i].pc = "prop"
     /\ Len(sv[i].trail) >= 2 /\ sv[i].qhead = Len(sv[i].trail) - 1
     /\ sign(sv[i].trail[Len(sv[i].trail)]) = 1
     /\ var(sv[i].trail[Len(sv[i].trail)]) > var(allItems[CurrentIndex(sv[i])])
     /\ var(sv[i].trail[Len(sv[i].trail)]) < nbItems
     /\ sv[i].totalWeight > 0 /\ sv[i].totalWeight >= min_supp
     /\ \E v \in Reifiers(sv[i]) :
          v < sv[i].enc_vars /\ sv[i].assigns[v] = l_False /\ sv[i].hu_wei[v] > 0

\* The transactions of the projected database whose variable is not false.
Covering(s) == {t \in ProjectedSet(s) : value(s, TransLit(t)) # l_False}
\* The transactions of the projected database that contain the itemset S.
Containing(s, S) == {t \in ProjectedSet(s) : S \subseteq db[t + 1].items}
\* Worker i records a model in this step.
RecordsModel(i) ==
  /\ ModelFound(sv[i]) /\ Len(sv'[i].emitted) = Len(sv[i].emitted) + 1
\* C33 (cover semantics of the transaction variables): when a model is
\* recorded under a prefix, the transactions of D_p whose q_t is not false
\* are exactly the transactions of D_p that contain the recorded itemset,
\* every transaction of D_p contains the item of the prefix, and a false q_t
\* has a true item outside t.
T_C33 ==
  [][\A i \in DOMAIN sv :
       RecordsModel(i) =>
         /\ Covering(sv[i]) = Containing(sv[i], Last(sv'[i].emitted))
         /\ \A t \in ProjectedSet(sv[i]) :
              /\ var(allItems[CurrentIndex(sv[i])]) \in db[t + 1].items
              /\ value(sv[i], TransLit(t)) = l_False =>
                   \E r \in Last(sv'[i].emitted) :
                      sv[i].assigns[r] = l_True /\ r \notin db[t + 1].items]_vars
W_C33 ==
  \E i \in DOMAIN sv :
     /\ ModelFound(sv[i]) /\ sv[i].nbModels >= 1
     /\ Cardinality(Covering(sv[i])) >= 2
     /\ Covering(sv[i]) # ProjectedSet(sv[i])
     /\ Covering(sv[i]) = Containing(sv[i], ItemsetOf(sv[i]))

\* The positions of the trail of s that hold a literal of variable v.
TrailPos(s, v) == {k \in 1..Len(s.trail) : var(s.trail[k]) = v}
\* The number of trail_lim marks at or below the (1-based) position k: the
\* decision level at which trail[k-1] was enqueued.
LevelAt(s, k) == Cardinality({d \in 1..Len(s.trail_lim) : s.trail_lim[d] < k})
\* qhead and trail_lim lie within the trail and trail_lim does not decrease.
LimitsFine(s) ==
  /\ 0 <= s.qhead /\ s.qhead <= Len(s.trail)
  /\ \A d \in 1..Len(s.trail_lim) : 0 <= s.trail_lim[d] /\ s.trail_lim[d] <= Len(s.trail)
  /\ \A d \in 1..(Len(s.trail_lim) - 1) : s.trail_lim[d] <= s.trail_lim[d + 1]
\* The assignment is the trail: a variable has at most one literal on the
\* trail, is assigned iff it has one, with the value that makes the literal
\* true and the level of the literal's position.
AssignsAreTrail(s) ==
  \A v \in VarIds :
     /\ Cardinality(TrailPos(s, v)) <= 1
     /\ s.assigns[v] # l_Undef <=> TrailPos(s, v) # {}
     /\ \A k \in TrailPos(s, v) :
          /\ value(s, s.trail[k]) = l_True
          /\ s.vardata[v].level = LevelAt(s, k)
\* C34 (trail consistency): in every reachable state of a worker qhead and
\* the marks of trail_lim lie within the trail, trail_lim is non-decreasing,
\* each variable has at most one literal on the trail, a variable is
\* assigned iff one of its literals is on the trail, with the value that
\* makes it true, and its recorded level is the number of trail_lim marks
\* at or below its position.
T_C34 == \A i \in DOMAIN sv : LimitsFine(sv[i]) /\ AssignsAreTrail(sv[i])
W_C34 ==
  \E i \in DOMAIN sv :
     /\ sv[i].pc = "prop" /\ Len(sv[i].trail_lim) >= 2
     /\ sv[i].qhead < Len(sv[i].trail)
     /\ sv[i].trail_lim[1] < sv[i].trail_lim[2] - 1
     /\ \E v \in Reifiers(sv[i]) : sv[i].assigns[v] = l_False /\ sv[i].vardata[v].level = 1
     /\ LevelAt(sv[i], Len(sv[i].trail)) = 2

====
